---- MODULE Spec2Model ----
(***************************************************************************)
(* Model of the todo backend of flow-v1: the handlers GetTodos, GetTodo,   *)
(* CreateTodo, UpdateTodo and DeleteTodo (backend/internal/handlers/       *)
(* todo.go), the request types they bind (models.CreateTodoRequest,        *)
(* models.UpdateTodoRequest) and the todos table they read and write.      *)
(*                                                                         *)
(* Conventions.  A value that may be absent (a Go pointer, a nullable SQL  *)
(* column, a JSON member or query key that may be missing) is a sequence   *)
(* of length at most one: <<>> is nil / NULL / absent, <<v>> is v.  The    *)
(* raw text of story_points_min / story_points_max is a sequence of        *)
(* one-character strings, so that strconv.Atoi is modelled by what it      *)
(* does.  Timestamps are integers.  The SQL text sent to storage is the    *)
(* sequence of its lines; storage interprets that text, and nothing else.  *)
(***************************************************************************)
EXTENDS Integers, Sequences, FiniteSets, TLC

VARIABLES todos, nextId, now, last, subtasks, nextSubId, inflight, board, pending

vars == <<todos, nextId, now, last, subtasks, nextSubId, inflight, board, pending>>

(***************************************************************************)
(* Bounds                                                                  *)
(***************************************************************************)
MaxTodos == 2

MaxSortTodos == 3

MaxTime == 2

(***************************************************************************)
(* Absent / nil / NULL                                                     *)
(***************************************************************************)
Nil == <<>>

Some(v) == <<v>>

IsNil(o) == o = <<>>

(***************************************************************************)
(* gin: c.Query and c.DefaultQuery                                         *)
(***************************************************************************)
Query(param) == IF IsNil(param) THEN "" ELSE param[1]

QueryChars(param) == IF IsNil(param) THEN <<>> ELSE param[1]

DefaultQuery(param, defaultValue) == IF IsNil(param) THEN defaultValue ELSE param[1]

(***************************************************************************)
(* strconv.Itoa and strconv.Atoi                                           *)
(***************************************************************************)
Digits == <<"0", "1", "2", "3", "4", "5", "6", "7", "8", "9">>

RECURSIVE Itoa(_)
Itoa(n) ==
    IF n < 0 THEN "-" \o Itoa(0 - n)
    ELSE IF n < 10 THEN Digits[n + 1]
    ELSE Itoa(n \div 10) \o Digits[(n % 10) + 1]

IsDigit(ch) == \E d \in 1..10 : Digits[d] = ch

DigitVal(ch) == (CHOOSE d \in 1..10 : Digits[d] = ch) - 1

RECURSIVE DigitsVal(_)
DigitsVal(s) ==
    IF s = <<>> THEN 0
    ELSE DigitsVal(SubSeq(s, 1, Len(s) - 1)) * 10 + DigitVal(s[Len(s)])

\* Atoi(s) = [err |-> TRUE] on a syntax error, else the value.  The inputs of
\* the model are at most two characters long, so the range error of a value
\* beyond 64 bits does not arise.
Atoi(s) ==
    LET signed == s # <<>> /\ s[1] \in {"+", "-"}
        body   == IF signed THEN Tail(s) ELSE s
    IN  IF body = <<>> \/ \E i \in 1..Len(body) : ~IsDigit(body[i])
        THEN [err |-> TRUE, val |-> 0]
        ELSE [err |-> FALSE,
              val |-> IF signed /\ s[1] = "-" THEN 0 - DigitsVal(body) ELSE DigitsVal(body)]

(***************************************************************************)
(* GetTodos: validation of the query parameters                            *)
(***************************************************************************)
validSortFields == {"due_date", "priority", "created_at"}

validStatuses == {"todo", "in_progress", "done"}

sortByOf(p) ==
    LET sortBy == DefaultQuery(p.sort_by, "created_at")
    IN  IF sortBy \in validSortFields THEN sortBy ELSE "created_at"

\* As orderOf, without the fallback to "desc".
orderOfUnchecked(p) == DefaultQuery(p.order, "desc")

orderOf(p) ==
    LET order == DefaultQuery(p.order, "desc")
    IN  IF order # "asc" /\ order # "desc" THEN "desc" ELSE order

statusFilterOf(p) ==
    LET statusFilter == Query(p.status)
    IN  IF statusFilter # "" /\ statusFilter \notin validStatuses THEN "" ELSE statusFilter

\* As orderByClauseOf, leaving the place of NULL due dates to the default.
orderByClauseOfDefaultNulls(sortBy, order) ==
    CASE sortBy = "due_date" ->
            IF order = "asc" THEN "ORDER BY due_date ASC" ELSE "ORDER BY due_date DESC"
      [] sortBy = "priority" ->
            IF order = "asc"
            THEN "ORDER BY CASE priority WHEN 'High' THEN 1 WHEN 'Medium' THEN 2 WHEN 'Low' THEN 3 END ASC"
            ELSE "ORDER BY CASE priority WHEN 'High' THEN 1 WHEN 'Medium' THEN 2 WHEN 'Low' THEN 3 END DESC"
      [] OTHER -> "ORDER BY created_at " \o order

\* As orderByClauseOf, sorting by the priority column itself.
orderByClauseOfColumn(sortBy, order) ==
    CASE sortBy = "due_date" ->
            IF order = "asc" THEN "ORDER BY due_date ASC NULLS LAST"
            ELSE "ORDER BY due_date DESC NULLS LAST"
      [] sortBy = "priority" ->
            IF order = "asc" THEN "ORDER BY priority ASC" ELSE "ORDER BY priority DESC"
      [] OTHER -> "ORDER BY created_at " \o order

orderByClauseOf(sortBy, order) ==
    CASE sortBy = "due_date" ->
            IF order = "asc" THEN "ORDER BY due_date ASC NULLS LAST"
            ELSE "ORDER BY due_date DESC NULLS LAST"
      [] sortBy = "priority" ->
            IF order = "asc"
            THEN "ORDER BY CASE priority WHEN 'High' THEN 1 WHEN 'Medium' THEN 2 WHEN 'Low' THEN 3 END ASC"
            ELSE "ORDER BY CASE priority WHEN 'High' THEN 1 WHEN 'Medium' THEN 2 WHEN 'Low' THEN 3 END DESC"
      [] OTHER -> "ORDER BY created_at " \o order

(***************************************************************************)
(* GetTodos: the WHERE clause and the bound arguments                      *)
(***************************************************************************)
TextArg(s) == [t |-> "text", s |-> s]

IntArg(n) == [t |-> "int", n |-> n]

NoFilters == [whereConditions |-> <<>>, queryArgs |-> <<>>, argIndex |-> 1]

\* As AddCondition, writing the value into the condition instead of a placeholder.
AddConditionInline(f, column, arg) ==
    [whereConditions |-> Append(f.whereConditions,
                                column \o (IF arg.t = "text" THEN arg.s ELSE Itoa(arg.n))),
     queryArgs       |-> f.queryArgs,
     argIndex        |-> f.argIndex]

\* As AddCondition, without argIndex++.
AddConditionSameIndex(f, column, arg) ==
    [whereConditions |-> Append(f.whereConditions, column \o Itoa(f.argIndex)),
     queryArgs       |-> Append(f.queryArgs, arg),
     argIndex        |-> f.argIndex]

AddCondition(f, column, arg) ==
    [whereConditions |-> Append(f.whereConditions, column \o Itoa(f.argIndex)),
     queryArgs       |-> Append(f.queryArgs, arg),
     argIndex        |-> f.argIndex + 1]

WithStatus(f, statusFilter) ==
    IF statusFilter # "" THEN AddCondition(f, "status = $", TextArg(statusFilter)) ELSE f

\* As AcceptBound, without the test for a negative value.
AcceptBoundAnySign(str) ==
    /\ str # <<>>
    /\ ~Atoi(str).err

\* A bound accepted only when it is above zero.
AcceptBoundPositive(str) ==
    /\ str # <<>>
    /\ ~Atoi(str).err
    /\ Atoi(str).val > 0

AcceptBound(str) ==
    /\ str # <<>>
    /\ ~Atoi(str).err
    /\ Atoi(str).val >= 0

WithStoryPointsMin(f, storyPointsMinStr) ==
    IF AcceptBound(storyPointsMinStr)
    THEN AddCondition(f, "story_points >= $", IntArg(Atoi(storyPointsMinStr).val))
    ELSE f

WithStoryPointsMax(f, storyPointsMaxStr) ==
    IF AcceptBound(storyPointsMaxStr)
    THEN AddCondition(f, "story_points <= $", IntArg(Atoi(storyPointsMaxStr).val))
    ELSE f

\* As FiltersOf, exchanging the two bounds when the minimum exceeds the maximum.
FiltersOfSwapping(p) ==
    LET lo   == QueryChars(p.story_points_min)
        hi   == QueryChars(p.story_points_max)
        swap == AcceptBound(lo) /\ AcceptBound(hi) /\ Atoi(lo).val > Atoi(hi).val
    IN  WithStoryPointsMax(
            WithStoryPointsMin(
                WithStatus(NoFilters, statusFilterOf(p)),
                IF swap THEN hi ELSE lo),
            IF swap THEN lo ELSE hi)

FiltersOf(p) ==
    WithStoryPointsMax(
        WithStoryPointsMin(
            WithStatus(NoFilters, statusFilterOf(p)),
            QueryChars(p.story_points_min)),
        QueryChars(p.story_points_max))

RECURSIVE AndJoin(_, _)
AndJoin(whereConditions, i) ==
    IF i > Len(whereConditions) THEN <<>>
    ELSE <<"AND", whereConditions[i]>> \o AndJoin(whereConditions, i + 1)

whereClauseOf(whereConditions) ==
    IF Len(whereConditions) > 0
    THEN <<"WHERE", whereConditions[1]>> \o AndJoin(whereConditions, 2)
    ELSE <<>>

SelectList ==
    "SELECT id, title, COALESCE(description, '') as description, status, due_date, priority, story_points, created_at, updated_at"

\* The statement and the arguments GetTodos hands to db.Pool.Query.
ListQuery(p) ==
    LET f == FiltersOf(p)
    IN  [sql  |-> <<SelectList, "FROM todos">>
                  \o whereClauseOf(f.whereConditions)
                  \o <<orderByClauseOf(sortByOf(p), orderOf(p))>>,
         args |-> f.queryArgs]

(***************************************************************************)
(* Storage: how the database reads the statement GetTodos sends.  The      *)
(* statement is SELECT / FROM / [WHERE c1 AND c2 ...] / ORDER BY; a        *)
(* condition is a column comparison against a numbered placeholder, and    *)
(* storage resolves $i to the i-th bound argument.                         *)
(***************************************************************************)
MaxPlaceholder == 9

ConditionsOf(sql) == [i \in 1..((Len(sql) - 3) \div 2) |-> sql[2 + 2 * i]]

Comparators == {"status = $", "story_points >= $", "story_points <= $"}

IsCondition(c) == \E col \in Comparators, i \in 1..MaxPlaceholder : c = col \o Itoa(i)

ComparatorOf(c) == CHOOSE col \in Comparators : \E i \in 1..MaxPlaceholder : c = col \o Itoa(i)

PlaceholderOf(c) == CHOOSE i \in 1..MaxPlaceholder : c = ComparatorOf(c) \o Itoa(i)

\* ORDER BY clauses storage understands: the sort key, the direction, and
\* whether NULL keys come last (the default is last for ASC, first for DESC).
OrderClauses ==
    {[text |-> "ORDER BY due_date ASC NULLS LAST",  key |-> "due_date", desc |-> FALSE, nullsLast |-> TRUE],
     [text |-> "ORDER BY due_date DESC NULLS LAST", key |-> "due_date", desc |-> TRUE,  nullsLast |-> TRUE],
     [text |-> "ORDER BY due_date ASC",             key |-> "due_date", desc |-> FALSE, nullsLast |-> TRUE],
     [text |-> "ORDER BY due_date DESC",            key |-> "due_date", desc |-> TRUE,  nullsLast |-> FALSE],
     [text |-> "ORDER BY CASE priority WHEN 'High' THEN 1 WHEN 'Medium' THEN 2 WHEN 'Low' THEN 3 END ASC",
      key |-> "rank", desc |-> FALSE, nullsLast |-> TRUE],
     [text |-> "ORDER BY CASE priority WHEN 'High' THEN 1 WHEN 'Medium' THEN 2 WHEN 'Low' THEN 3 END DESC",
      key |-> "rank", desc |-> TRUE, nullsLast |-> FALSE],
     [text |-> "ORDER BY priority ASC",    key |-> "priority",   desc |-> FALSE, nullsLast |-> TRUE],
     [text |-> "ORDER BY priority DESC",   key |-> "priority",   desc |-> TRUE,  nullsLast |-> FALSE],
     [text |-> "ORDER BY created_at asc",  key |-> "created_at", desc |-> FALSE, nullsLast |-> TRUE],
     [text |-> "ORDER BY created_at desc", key |-> "created_at", desc |-> TRUE,  nullsLast |-> FALSE]}

OrderOf(sql) == CHOOSE o \in OrderClauses : o.text = sql[Len(sql)]

\* The statement is well formed and its placeholders are exactly $1..$n for
\* the n arguments bound, each of the type its column is compared with.
StatementOK(sql, args) ==
    /\ Len(sql) >= 3
    /\ sql[1] = SelectList
    /\ sql[2] = "FROM todos"
    /\ \E o \in OrderClauses : o.text = sql[Len(sql)]
    /\ (Len(sql) - 3) % 2 = 0
    /\ Len(sql) > 3 => sql[3] = "WHERE"
    /\ \A i \in 2..((Len(sql) - 3) \div 2) : sql[1 + 2 * i] = "AND"
    /\ LET cs == ConditionsOf(sql)
       IN  /\ \A i \in 1..Len(cs) : IsCondition(cs[i])
           /\ {PlaceholderOf(cs[i]) : i \in 1..Len(cs)} = 1..Len(args)
           /\ \A i \in 1..Len(cs) :
                 args[PlaceholderOf(cs[i])].t =
                     (IF ComparatorOf(cs[i]) = "status = $" THEN "text" ELSE "int")

\* A comparison with a NULL story_points is not true.
ConditionHolds(c, args, row) ==
    LET a == args[PlaceholderOf(c)]
    IN  CASE ComparatorOf(c) = "status = $"        -> row.status = a.s
          [] ComparatorOf(c) = "story_points >= $" ->
                 ~IsNil(row.story_points) /\ row.story_points[1] >= a.n
          [] ComparatorOf(c) = "story_points <= $" ->
                 ~IsNil(row.story_points) /\ row.story_points[1] <= a.n

Selected(sql, args, table) ==
    {id \in DOMAIN table :
        \A i \in 1..Len(ConditionsOf(sql)) : ConditionHolds(ConditionsOf(sql)[i], args, table[id])}

\* The value of CASE priority WHEN 'High' THEN 1 ... END: NULL without a match.
PriorityRank(priority) ==
    CASE priority = "High"   -> Some(1)
      [] priority = "Medium" -> Some(2)
      [] priority = "Low"    -> Some(3)
      [] OTHER               -> Nil

\* Text order of the priorities the application knows.
PriorityText(priority) ==
    CASE priority = "High"   -> Some(1)
      [] priority = "Low"    -> Some(2)
      [] priority = "Medium" -> Some(3)
      [] OTHER               -> Some(0)

SortKey(o, row) ==
    CASE o.key = "due_date"   -> row.due_date
      [] o.key = "rank"       -> PriorityRank(row.priority)
      [] o.key = "priority"   -> PriorityText(row.priority)
      [] o.key = "created_at" -> Some(row.created_at)

\* a may come before b in the output.
MayPrecede(o, a, b) ==
    LET ka == SortKey(o, a)
        kb == SortKey(o, b)
    IN  CASE IsNil(ka) /\ IsNil(kb) -> TRUE
          [] IsNil(ka)              -> ~o.nullsLast
          [] IsNil(kb)              -> o.nullsLast
          [] OTHER                  -> IF o.desc THEN ka[1] >= kb[1] ELSE ka[1] <= kb[1]

Orderings(ids) ==
    {s \in [1..Cardinality(ids) -> ids] : \A i, j \in 1..Cardinality(ids) : i # j => s[i] # s[j]}

\* Every row sequence the SELECT can return: rows with equal keys come in any
\* order.
QueryResults(sql, args, table) ==
    LET ids == Selected(sql, args, table)
        o   == OrderOf(sql)
    IN  {[i \in 1..Cardinality(ids) |-> table[s[i]]] :
            s \in {t \in Orderings(ids) :
                     \A i, j \in 1..Cardinality(ids) :
                        i < j => MayPrecede(o, table[t[i]], table[t[j]])}}

\* rows.Scan into models.Todo: COALESCE(description, '') as description.
ScanTodo(row) ==
    [row EXCEPT !.description = IF IsNil(row.description) THEN "" ELSE row.description[1]]

(***************************************************************************)
(* The record of the last request and its answer                           *)
(***************************************************************************)
NoLast ==
    [op |-> "none", id |-> <<>>, req |-> <<>>, code |-> 0, todo |-> Nil, before |-> Nil,
     sql |-> <<>>, args |-> <<>>, rows |-> <<>>, error |-> "", details |-> "",
     subtaskId |-> <<>>, subtask |-> Nil, body |-> Nil]

Answer(op, id, req, code) == [NoLast EXCEPT !.op = op, !.id = id, !.req = req, !.code = code]

\* gin.H{"error": message}
Failure(op, id, req, code, message) == [Answer(op, id, req, code) EXCEPT !.error = message]

(***************************************************************************)
(* GetTodos                                                                *)
(***************************************************************************)
\* A Go slice is nil or holds a sequence; append to either gives a slice
\* that holds one.
append(slice, item) == Some((IF IsNil(slice) THEN <<>> ELSE slice[1]) \o <<item>>)

RECURSIVE AppendAll(_, _)
AppendAll(slice, items) ==
    IF items = <<>> THEN slice ELSE AppendAll(append(slice, Head(items)), Tail(items))

\* encoding/json writes null for a nil slice and an array for any other.
MarshalSlice(slice) ==
    [null |-> IsNil(slice), items |-> IF IsNil(slice) THEN <<>> ELSE slice[1]]

\* A list declared without a value: var todos []models.Todo.
NewTodoSliceNil == Nil

\* todos := []models.Todo{}
NewTodoSlice == Some(<<>>)

GetTodos(p, dbOK) ==
    LET q == ListQuery(p)
    IN  /\ IF dbOK /\ StatementOK(q.sql, q.args)
           THEN \E rows \in QueryResults(q.sql, q.args, todos) :
                    last' = [Answer("GetTodos", Nil, p, 200) EXCEPT
                                !.sql = q.sql, !.args = q.args,
                                !.rows = [i \in 1..Len(rows) |-> ScanTodo(rows[i])],
                                !.body = MarshalSlice(AppendAll(NewTodoSlice,
                                            [i \in 1..Len(rows) |-> ScanTodo(rows[i])]))]
           ELSE last' = [Answer("GetTodos", Nil, p, 500) EXCEPT !.sql = q.sql, !.args = q.args]
        /\ UNCHANGED <<todos, nextId, now, subtasks, nextSubId, inflight, board, pending>>

(***************************************************************************)
(* The request bodies: JSON decoding and the binding tags                  *)
(***************************************************************************)
\* A JSON string member decoded into a Go string field: a missing member
\* leaves the zero value "".
JSONString(member) == IF IsNil(member) THEN "" ELSE member[1]

BindJSON(payload) ==
    [Title       |-> JSONString(payload.title),
     Description |-> JSONString(payload.description),
     Status      |-> JSONString(payload.status),
     DueDate     |-> payload.due_date,
     Priority    |-> JSONString(payload.priority),
     StoryPoints |-> payload.story_points]

\* binding:"required"
Required(field) == field # ""

\* A oneof rule that accepts every non-empty word.
OneOfAnyWord(field, words) == field # ""

\* binding:"oneof=...": the value is one of the listed words (the zero value
\* is not, unless omitempty precedes the rule).
OneOf(field, words) == field \in words

\* binding:"omitempty,oneof=..."
OmitEmptyOneOf(field, words) == field = "" \/ OneOf(field, words)

validPriorities == {"High", "Medium", "Low"}

CreateTodoRequestOK(req) ==
    /\ Required(req.Title)
    /\ OmitEmptyOneOf(req.Status, validStatuses)
    /\ OneOf(req.Priority, validPriorities)

\* An UpdateTodoRequest whose Status carries no oneof rule.
UpdateTodoRequestOKAnyStatus(req) == OneOf(req.Priority, validPriorities)

UpdateTodoRequestOK(req) ==
    /\ OmitEmptyOneOf(req.Status, validStatuses)
    /\ OneOf(req.Priority, validPriorities)

validStoryPoints == {1, 2, 3, 5, 8}

\* Handlers without the story points lookup.
StoryPointsOKAny(req) == TRUE

StoryPointsOK(req) == IsNil(req.StoryPoints) \/ req.StoryPoints[1] \in validStoryPoints

\* strconv.ParseInt(c.Param("id"), 10, 64)
ParseInt(str) == Atoi(str)

(***************************************************************************)
(* Statement parameters and COALESCE                                       *)
(***************************************************************************)
\* A Go string bound as a parameter is a text value, never NULL.
StringParam(str) == Some(str)

\* var x interface{}: nil when the string is empty, the string otherwise.
EmptyToNil(str) == IF str = "" THEN Nil ELSE Some(str)

Coalesce(a, b) == IF IsNil(a) THEN b ELSE a

(***************************************************************************)
(* CreateTodo                                                              *)
(***************************************************************************)
InsertedRow(req, id, time) ==
    LET description == EmptyToNil(req.Description)
        priority    == IF req.Priority = "" THEN "Medium" ELSE req.Priority
        status      == IF req.Status = "" THEN "todo" ELSE req.Status
    IN  [id           |-> id,
         title        |-> req.Title,
         description  |-> description,
         status       |-> status,
         due_date     |-> req.DueDate,
         priority     |-> priority,
         story_points |-> req.StoryPoints,
         created_at   |-> time,
         updated_at   |-> time]

CreateTodo(payload, dbOK) ==
    LET req == BindJSON(payload)
        row == InsertedRow(req, nextId, now)
    IN  IF ~CreateTodoRequestOK(req) \/ ~StoryPointsOK(req)
        THEN /\ last' = Answer("CreateTodo", Nil, payload, 400)
             /\ UNCHANGED <<todos, nextId, now, subtasks, nextSubId, inflight, board, pending>>
        ELSE IF ~dbOK
        THEN /\ last' = Answer("CreateTodo", Nil, payload, 500)
             /\ UNCHANGED <<todos, nextId, now, subtasks, nextSubId, inflight, board, pending>>
        ELSE /\ todos' = [id \in DOMAIN todos \cup {nextId} |->
                              IF id = nextId THEN row ELSE todos[id]]
             /\ nextId' = nextId + 1
             /\ last' = [Answer("CreateTodo", Nil, payload, 201) EXCEPT !.todo = Some(ScanTodo(row))]
             /\ UNCHANGED <<now, subtasks, nextSubId, inflight, board, pending>>

(***************************************************************************)
(* UpdateTodo                                                              *)
(***************************************************************************)
\* A SET list without updated_at = NOW().
UpdatedRowStale(row, req, time) ==
    LET description == EmptyToNil(req.Description)
        status      == EmptyToNil(req.Status)
    IN  [row EXCEPT
            !.title        = Coalesce(StringParam(req.Title), Some(row.title))[1],
            !.description  = Coalesce(description, row.description),
            !.status       = Coalesce(status, Some(row.status))[1],
            !.due_date     = Coalesce(req.DueDate, row.due_date),
            !.priority     = Coalesce(StringParam(req.Priority), Some(row.priority))[1],
            !.story_points = Coalesce(req.StoryPoints, row.story_points)]

\* A SET list that assigns due_date and story_points without COALESCE.
UpdatedRowOverwriting(row, req, time) ==
    LET description == EmptyToNil(req.Description)
        status      == EmptyToNil(req.Status)
    IN  [row EXCEPT
            !.title        = Coalesce(StringParam(req.Title), Some(row.title))[1],
            !.description  = Coalesce(description, row.description),
            !.status       = Coalesce(status, Some(row.status))[1],
            !.due_date     = req.DueDate,
            !.priority     = Coalesce(StringParam(req.Priority), Some(row.priority))[1],
            !.story_points = req.StoryPoints,
            !.updated_at   = time]

\* The SET list of the UPDATE: column = COALESCE(parameter, column).
UpdatedRow(row, req, time) ==
    LET description == EmptyToNil(req.Description)
        status      == EmptyToNil(req.Status)
    IN  [row EXCEPT
            !.title        = Coalesce(StringParam(req.Title), Some(row.title))[1],
            !.description  = Coalesce(description, row.description),
            !.status       = Coalesce(status, Some(row.status))[1],
            !.due_date     = Coalesce(req.DueDate, row.due_date),
            !.priority     = Coalesce(StringParam(req.Priority), Some(row.priority))[1],
            !.story_points = Coalesce(req.StoryPoints, row.story_points),
            !.updated_at   = time]

RowBefore(id) == IF id \in DOMAIN todos THEN Some(todos[id]) ELSE Nil

UpdateTodo(idParam, payload, dbOK) ==
    LET id  == ParseInt(idParam)
        req == BindJSON(payload)
    IN  IF id.err \/ ~UpdateTodoRequestOK(req) \/ ~StoryPointsOK(req)
        THEN /\ last' = [Answer("UpdateTodo", idParam, payload, 400) EXCEPT
                            !.before = IF id.err THEN Nil ELSE RowBefore(id.val)]
             /\ UNCHANGED <<todos, nextId, now, subtasks, nextSubId, inflight, board, pending>>
        ELSE IF ~dbOK
        THEN /\ last' = [Answer("UpdateTodo", idParam, payload, 500) EXCEPT
                            !.before = RowBefore(id.val)]
             /\ UNCHANGED <<todos, nextId, now, subtasks, nextSubId, inflight, board, pending>>
        ELSE IF id.val \notin DOMAIN todos
        THEN /\ last' = Failure("UpdateTodo", idParam, payload, 404, "Todo not found")
             /\ UNCHANGED <<todos, nextId, now, subtasks, nextSubId, inflight, board, pending>>
        ELSE LET row == UpdatedRow(todos[id.val], req, now)
             IN  /\ todos' = [todos EXCEPT ![id.val] = row]
                 /\ last' = [Answer("UpdateTodo", idParam, payload, 200) EXCEPT
                                !.todo = Some(ScanTodo(row)), !.before = RowBefore(id.val)]
                 /\ UNCHANGED <<nextId, now, subtasks, nextSubId, inflight, board, pending>>

\* UpdateTodo up to its statement: the id is parsed and the payload bound
\* and validated; a request that passes goes on in flight while other
\* requests are handled.
UpdateTodoBind(idParam, payload) ==
    LET id  == ParseInt(idParam)
        req == BindJSON(payload)
    IN  /\ IsNil(inflight)
        /\ IF id.err \/ ~UpdateTodoRequestOK(req) \/ ~StoryPointsOK(req)
           THEN /\ last' = [Answer("UpdateTodo", idParam, payload, 400) EXCEPT
                               !.before = IF id.err THEN Nil ELSE RowBefore(id.val)]
                /\ UNCHANGED <<todos, nextId, now, subtasks, nextSubId, inflight, board, pending>>
           ELSE /\ inflight' = Some([op |-> "UpdateTodo", id |-> idParam,
                                     todoID |-> id.val, payload |-> payload])
                /\ UNCHANGED <<todos, nextId, now, last, subtasks, nextSubId, board, pending>>

\* The rest of UpdateTodo: the one UPDATE ... RETURNING statement, which
\* reads the row it writes, and the answer.
UpdateTodoStatement(dbOK) ==
    LET call == inflight[1]
        req  == BindJSON(call.payload)
    IN  /\ ~IsNil(inflight)
        /\ call.op = "UpdateTodo"
        /\ inflight' = Nil
        /\ IF ~dbOK
           THEN /\ last' = [Answer("UpdateTodo", call.id, call.payload, 500) EXCEPT
                               !.before = RowBefore(call.todoID)]
                /\ UNCHANGED <<todos, nextId, now, subtasks, nextSubId, board, pending>>
           ELSE IF call.todoID \notin DOMAIN todos
           THEN /\ last' = Failure("UpdateTodo", call.id, call.payload, 404, "Todo not found")
                /\ UNCHANGED <<todos, nextId, now, subtasks, nextSubId, board, pending>>
           ELSE LET row == UpdatedRow(todos[call.todoID], req, now)
                IN  /\ todos' = [todos EXCEPT ![call.todoID] = row]
                    /\ last' = [Answer("UpdateTodo", call.id, call.payload, 200) EXCEPT
                                   !.todo = Some(ScanTodo(row)),
                                   !.before = RowBefore(call.todoID)]
                    /\ UNCHANGED <<nextId, now, subtasks, nextSubId, board, pending>>

(***************************************************************************)
(* GetTodo and DeleteTodo                                                  *)
(***************************************************************************)
\* A GetTodo whose SELECT list and Scan leave story_points out.
GetTodoWithoutStoryPoints(idParam, dbOK) ==
    LET id == ParseInt(idParam)
    IN  /\ last' = IF id.err THEN Answer("GetTodo", idParam, Nil, 400)
                   ELSE IF ~dbOK THEN Answer("GetTodo", idParam, Nil, 500)
                   ELSE IF id.val \notin DOMAIN todos
                        THEN Failure("GetTodo", idParam, Nil, 404, "Todo not found")
                   ELSE [Answer("GetTodo", idParam, Nil, 200) EXCEPT
                            !.todo = Some([ScanTodo(todos[id.val]) EXCEPT !.story_points = Nil]),
                            !.before = RowBefore(id.val)]
        /\ UNCHANGED <<todos, nextId, now, subtasks, nextSubId, inflight, board, pending>>

GetTodo(idParam, dbOK) ==
    LET id == ParseInt(idParam)
    IN  /\ last' = IF id.err THEN Answer("GetTodo", idParam, Nil, 400)
                   ELSE IF ~dbOK THEN Answer("GetTodo", idParam, Nil, 500)
                   ELSE IF id.val \notin DOMAIN todos
                        THEN Failure("GetTodo", idParam, Nil, 404, "Todo not found")
                   ELSE [Answer("GetTodo", idParam, Nil, 200) EXCEPT
                            !.todo = Some(ScanTodo(todos[id.val])), !.before = RowBefore(id.val)]
        /\ UNCHANGED <<todos, nextId, now, subtasks, nextSubId, inflight, board, pending>>

\* subtasks.todo_id REFERENCES todos(id) ON DELETE CASCADE: deleting a todo
\* deletes its subtasks in the same statement.
OnDeleteCascade(table, todoID) ==
    [s \in {x \in DOMAIN table : table[x].todo_id # todoID} |-> table[s]]

DeleteTodo(idParam, dbOK) ==
    LET id == ParseInt(idParam)
    IN  IF id.err
        THEN /\ last' = Answer("DeleteTodo", idParam, Nil, 400)
             /\ UNCHANGED <<todos, nextId, now, subtasks, nextSubId, inflight, board, pending>>
        ELSE IF ~dbOK
        THEN /\ last' = [Answer("DeleteTodo", idParam, Nil, 500) EXCEPT !.before = RowBefore(id.val)]
             /\ UNCHANGED <<todos, nextId, now, subtasks, nextSubId, inflight, board, pending>>
        ELSE IF id.val \notin DOMAIN todos
        THEN /\ last' = Failure("DeleteTodo", idParam, Nil, 404, "Todo not found")
             /\ UNCHANGED <<todos, nextId, now, subtasks, nextSubId, inflight, board, pending>>
        ELSE /\ todos' = [i \in DOMAIN todos \ {id.val} |-> todos[i]]
             /\ subtasks' = OnDeleteCascade(subtasks, id.val)
             /\ last' = [Answer("DeleteTodo", idParam, Nil, 204) EXCEPT !.before = RowBefore(id.val)]
             /\ UNCHANGED <<nextId, now, nextSubId, inflight, board, pending>>

(***************************************************************************)
(* Subtasks                                                                *)
(***************************************************************************)
\* How the pool stands for one request: usable, never initialized, or
\* failing the statement sent through it.
PoolStates == {"ok", "nil", "fails"}

SubtaskPayload(title, completed) == [title |-> title, completed |-> completed]

\* ShouldBindJSON into CreateSubtaskRequest / UpdateSubtaskRequest: an
\* absent member leaves the zero value.
BindSubtaskJSON(payload) ==
    [Title     |-> JSONString(payload.title),
     Completed |-> IF IsNil(payload.completed) THEN FALSE ELSE payload.completed[1]]

CreateSubtaskRequestOK(req) == Required(req.Title)

\* A subtasks table whose todo_id references nothing.
ForeignKeyUnchecked(todoID) == TRUE

\* todo_id INTEGER NOT NULL REFERENCES todos(id): a row is inserted only
\* when its todo_id is the id of a stored todo.
ForeignKeyOK(todoID) == todoID \in DOMAIN todos

InsertedSubtask(id, todoID, req, time) ==
    [id |-> id, todo_id |-> todoID, title |-> req.Title, completed |-> FALSE,
     created_at |-> time, updated_at |-> time]

\* var subtasks []models.Subtask
NewSubtaskSlice == Nil

\* SELECT ... FROM subtasks WHERE todo_id = $1 ORDER BY created_at ASC: rows
\* created at the same time come in any order.
SubtaskResults(todoID) ==
    LET ids == {s \in DOMAIN subtasks : subtasks[s].todo_id = todoID}
    IN  {[i \in 1..Cardinality(ids) |-> subtasks[t[i]]] :
            t \in {u \in Orderings(ids) :
                     \A i, j \in 1..Cardinality(ids) :
                        i < j => subtasks[u[i]].created_at <= subtasks[u[j]].created_at}}

GetSubtasks(idParam, pool) ==
    LET todoID == ParseInt(idParam)
    IN  /\ IF pool = "nil"
           THEN last' = Failure("GetSubtasks", idParam, Nil, 500, "Database connection not initialized")
           ELSE IF todoID.err
           THEN last' = Failure("GetSubtasks", idParam, Nil, 400, "Invalid todo ID")
           ELSE IF pool = "fails"
           THEN last' = Failure("GetSubtasks", idParam, Nil, 500, "Failed to verify todo")
           ELSE IF todoID.val \notin DOMAIN todos
           THEN last' = Failure("GetSubtasks", idParam, Nil, 404, "Todo not found")
           ELSE \E rows \in SubtaskResults(todoID.val) :
                    last' = [Answer("GetSubtasks", idParam, Nil, 200) EXCEPT
                                !.rows = rows,
                                !.body = MarshalSlice(AppendAll(NewSubtaskSlice, rows))]
        /\ UNCHANGED <<todos, nextId, now, subtasks, nextSubId, inflight, board, pending>>

\* CreateSubtask up to and including its first statement, the SELECT EXISTS
\* on the parent.  When the parent exists the request goes on in flight.
CreateSubtaskVerify(idParam, payload, pool) ==
    LET todoID == ParseInt(idParam)
        fail(code, message) ==
            /\ last' = Failure("CreateSubtask", idParam, payload, code, message)
            /\ UNCHANGED <<todos, nextId, now, subtasks, nextSubId, inflight, board, pending>>
    IN  /\ IsNil(inflight)
        /\ IF pool = "nil" THEN fail(500, "Database connection not initialized")
           ELSE IF todoID.err THEN fail(400, "Invalid todo ID")
           ELSE IF pool = "fails" THEN fail(500, "Failed to verify todo")
           ELSE IF todoID.val \notin DOMAIN todos THEN fail(404, "Todo not found")
           ELSE /\ inflight' = Some([op |-> "CreateSubtask", id |-> idParam,
                                     todoID |-> todoID.val, payload |-> payload])
                /\ UNCHANGED <<todos, nextId, now, last, subtasks, nextSubId, board, pending>>

\* The rest of CreateSubtask: binding, then the INSERT as its own statement.
\* The sequence behind SERIAL hands out an id before the row is checked.
CreateSubtaskInsert(pool) ==
    LET call   == inflight[1]
        req    == BindSubtaskJSON(call.payload)
        row    == InsertedSubtask(nextSubId, call.todoID, req, now)
        answer(code) == Answer("CreateSubtask", call.id, call.payload, code)
    IN  /\ ~IsNil(inflight)
        /\ call.op = "CreateSubtask"
        /\ inflight' = Nil
        /\ IF ~CreateSubtaskRequestOK(req)
           THEN /\ last' = answer(400)
                /\ UNCHANGED <<todos, nextId, now, subtasks, nextSubId, board, pending>>
           ELSE IF pool # "ok"
           THEN /\ last' = [answer(500) EXCEPT !.error = "Failed to create subtask",
                                               !.details = "connection"]
                /\ UNCHANGED <<todos, nextId, now, subtasks, nextSubId, board, pending>>
           ELSE IF ~ForeignKeyOK(call.todoID)
           THEN /\ last' = [answer(500) EXCEPT !.error = "Failed to create subtask",
                                               !.details = "SQLSTATE 23503"]
                /\ nextSubId' = nextSubId + 1
                /\ UNCHANGED <<todos, nextId, now, subtasks, board, pending>>
           ELSE /\ subtasks' = [id \in DOMAIN subtasks \cup {nextSubId} |->
                                    IF id = nextSubId THEN row ELSE subtasks[id]]
                /\ nextSubId' = nextSubId + 1
                /\ last' = [answer(201) EXCEPT !.subtask = Some(row)]
                /\ UNCHANGED <<todos, nextId, now, board, pending>>

\* A WHERE clause on the subtask id alone.
SubtaskOfAnyParent(subtaskID, todoID) == subtaskID \in DOMAIN subtasks

\* WHERE id = $3 AND todo_id = $4
SubtaskOf(subtaskID, todoID) ==
    subtaskID \in DOMAIN subtasks /\ subtasks[subtaskID].todo_id = todoID

\* A SET list that leaves completed alone when the payload's is false.
UpdatedSubtaskKeepingCompleted(row, req, time) ==
    [row EXCEPT !.title      = IF req.Title # "" THEN req.Title ELSE row.title,
                !.completed  = row.completed \/ req.Completed,
                !.updated_at = time]

\* SET title = CASE WHEN $1 != '' THEN $1 ELSE title END, completed = $2,
\* updated_at = NOW()
UpdatedSubtask(row, req, time) ==
    [row EXCEPT !.title      = IF req.Title # "" THEN req.Title ELSE row.title,
                !.completed  = req.Completed,
                !.updated_at = time]

SubtaskBefore(subtaskID) ==
    IF ~subtaskID.err /\ subtaskID.val \in DOMAIN subtasks
    THEN Some(subtasks[subtaskID.val]) ELSE Nil

UpdateSubtask(idParam, subtaskParam, payload, pool) ==
    LET todoID    == ParseInt(idParam)
        subtaskID == ParseInt(subtaskParam)
        req       == BindSubtaskJSON(payload)
        fail(code, message) ==
            /\ last' = [Failure("UpdateSubtask", idParam, payload, code, message) EXCEPT
                            !.subtaskId = subtaskParam, !.before = SubtaskBefore(subtaskID)]
            /\ UNCHANGED <<todos, nextId, now, subtasks, nextSubId, inflight, board, pending>>
    IN  IF pool = "nil" THEN fail(500, "Database connection not initialized")
        ELSE IF todoID.err THEN fail(400, "Invalid todo ID")
        ELSE IF subtaskID.err THEN fail(400, "Invalid subtask ID")
        ELSE IF pool = "fails" THEN fail(500, "Failed to update subtask")
        ELSE IF ~SubtaskOf(subtaskID.val, todoID.val) THEN fail(404, "Subtask not found")
        ELSE LET row == UpdatedSubtask(subtasks[subtaskID.val], req, now)
             IN  /\ subtasks' = [subtasks EXCEPT ![subtaskID.val] = row]
                 /\ last' = [Answer("UpdateSubtask", idParam, payload, 200) EXCEPT
                                !.subtaskId = subtaskParam, !.subtask = Some(row),
                                !.before = SubtaskBefore(subtaskID)]
                 /\ UNCHANGED <<todos, nextId, now, nextSubId, inflight, board, pending>>

DeleteSubtask(idParam, subtaskParam, pool) ==
    LET todoID    == ParseInt(idParam)
        subtaskID == ParseInt(subtaskParam)
        fail(code, message) ==
            /\ last' = [Failure("DeleteSubtask", idParam, Nil, code, message) EXCEPT
                            !.subtaskId = subtaskParam, !.before = SubtaskBefore(subtaskID)]
            /\ UNCHANGED <<todos, nextId, now, subtasks, nextSubId, inflight, board, pending>>
    IN  IF pool = "nil" THEN fail(500, "Database connection not initialized")
        ELSE IF todoID.err THEN fail(400, "Invalid todo ID")
        ELSE IF subtaskID.err THEN fail(400, "Invalid subtask ID")
        ELSE IF pool = "fails" THEN fail(500, "Failed to delete subtask")
        ELSE IF ~SubtaskOf(subtaskID.val, todoID.val) THEN fail(404, "Subtask not found")
        ELSE /\ subtasks' = [s \in DOMAIN subtasks \ {subtaskID.val} |-> subtasks[s]]
             /\ last' = [Answer("DeleteSubtask", idParam, Nil, 204) EXCEPT
                            !.subtaskId = subtaskParam, !.before = SubtaskBefore(subtaskID)]
             /\ UNCHANGED <<todos, nextId, now, nextSubId, inflight, board, pending>>

(***************************************************************************)
(* One client: a request is handled once the answer to the one before it   *)
(* has been written out; the answer record is then cleared.                *)
(***************************************************************************)
Idle == last.op = "none"

Deliver ==
    /\ ~Idle
    /\ last' = NoLast
    /\ UNCHANGED <<todos, nextId, now, subtasks, nextSubId, inflight, board, pending>>

(***************************************************************************)
(* Time: NOW() never goes back                                             *)
(***************************************************************************)
Tick ==
    /\ Idle
    /\ now < MaxTime
    /\ now' = now + 1
    /\ UNCHANGED <<todos, nextId, last, subtasks, nextSubId, inflight, board, pending>>

(***************************************************************************)
(* Initial state: an empty table                                           *)
(***************************************************************************)
Init ==
    /\ todos = <<>>
    /\ nextId = 1
    /\ now = 1
    /\ last = NoLast
    /\ subtasks = <<>>
    /\ nextSubId = 1
    /\ inflight = Nil
    /\ board = <<>>
    /\ pending = {}

(***************************************************************************)
(* Inputs                                                                  *)
(***************************************************************************)
Payload(title, description, status, due_date, priority, story_points) ==
    [title |-> title, description |-> description, status |-> status,
     due_date |-> due_date, priority |-> priority, story_points |-> story_points]

ListRequest(sort_by, order, status, story_points_min, story_points_max) ==
    [sort_by |-> sort_by, order |-> order, status |-> status,
     story_points_min |-> story_points_min, story_points_max |-> story_points_max]

SortByParams == {Nil, Some(""), Some("due_date"), Some("priority"), Some("created_at"), Some("title")}

OrderParams == {Nil, Some(""), Some("asc"), Some("desc"), Some("ASC")}

StatusParams == {Nil, Some(""), Some("todo"), Some("done"), Some("archived")}

BoundParams ==
    {Nil, Some(<<>>), Some(<<"2">>), Some(<<"5">>), Some(<<"-", "1">>), Some(<<"x">>)}

IdParams == {<<Itoa(i)>> : i \in 1..(MaxTodos + 1)} \cup {<<"x">>}

(***************************************************************************)
(* SpecBuild: the query builder over every combination of parameters       *)
(***************************************************************************)
BuildRequests ==
    {ListRequest(s, o, st, lo, hi) :
        s \in SortByParams, o \in OrderParams, st \in StatusParams,
        lo \in BoundParams, hi \in BoundParams}

ListBuilt ==
    /\ Idle
    /\ \E p \in BuildRequests, dbOK \in BOOLEAN : GetTodos(p, dbOK)

NextBuild == ListBuilt \/ Deliver

SpecBuild == Init /\ [][NextBuild]_vars

(***************************************************************************)
(* SpecFilter: listing a table of estimated and unestimated tasks          *)
(***************************************************************************)
FilterPayloads ==
    {Payload(Some("Buy milk"), Nil, st, Nil, Some("Medium"), sp) :
        st \in {Nil, Some("done")}, sp \in {Nil, Some(2), Some(5)}}

FilterRequests ==
    {ListRequest(Nil, Nil, st, lo, hi) :
        st \in StatusParams, lo \in BoundParams, hi \in BoundParams}

CreateForFilter ==
    /\ Idle
    /\ nextId <= MaxTodos
    /\ \E payload \in FilterPayloads, dbOK \in BOOLEAN : CreateTodo(payload, dbOK)

ListFiltered ==
    /\ Idle
    /\ \E p \in FilterRequests, dbOK \in BOOLEAN : GetTodos(p, dbOK)

NextFilter == CreateForFilter \/ ListFiltered \/ Deliver

SpecFilter == Init /\ [][NextFilter]_vars

(***************************************************************************)
(* SpecSort: listing a table of tasks of several priorities and due dates  *)
(***************************************************************************)
SortPayloads ==
    {Payload(Some("Buy milk"), Nil, Nil, due, Some(pr), Nil) :
        due \in {Nil, Some(1), Some(2)}, pr \in validPriorities}

SortRequests ==
    {ListRequest(s, o, Nil, Nil, Nil) :
        s \in {Nil, Some("due_date"), Some("priority")}, o \in {Nil, Some("asc"), Some("desc")}}

CreateForSort ==
    /\ Idle
    /\ nextId <= MaxSortTodos
    /\ \E payload \in SortPayloads : CreateTodo(payload, TRUE)

ListSorted ==
    /\ Idle
    /\ \E p \in SortRequests, dbOK \in BOOLEAN : GetTodos(p, dbOK)

NextSort == CreateForSort \/ ListSorted \/ Deliver

SpecSort == Init /\ [][NextSort]_vars

(***************************************************************************)
(* Spec: creating, updating, reading and deleting tasks                    *)
(***************************************************************************)
CreatePayloads ==
    {Payload(t, d, Nil, Nil, pr, Nil) :
        t \in {Nil, Some("Buy milk")}, d \in {Nil, Some("Milk, eggs")},
        pr \in {Nil, Some("Medium")}}

UpdatePayloads ==
    {Payload(t, d, Nil, Nil, pr, Nil) :
        t \in {Nil, Some(""), Some("Walk dog")},
        d \in {Nil, Some(""), Some("Bread")},
        pr \in {Nil, Some(""), Some("High"), Some("Urgent")}}

Create ==
    /\ Idle
    /\ nextId <= MaxTodos
    /\ \E payload \in CreatePayloads, dbOK \in BOOLEAN : CreateTodo(payload, dbOK)

Update ==
    /\ Idle
    /\ \E idParam \in IdParams, payload \in UpdatePayloads, dbOK \in BOOLEAN :
           UpdateTodo(idParam, payload, dbOK)

Get ==
    /\ Idle
    /\ \E idParam \in IdParams, dbOK \in BOOLEAN : GetTodo(idParam, dbOK)

Delete ==
    /\ Idle
    /\ \E idParam \in IdParams, dbOK \in BOOLEAN : DeleteTodo(idParam, dbOK)

Next == Create \/ Update \/ Get \/ Delete \/ Tick \/ Deliver

Spec == Init /\ [][Next]_vars

(***************************************************************************)
(* Vocabulary of the properties                                            *)
(***************************************************************************)
Listed == last.op = "GetTodos"

ClientError(code) == code >= 400 /\ code <= 499

\* The sort field, the order and the status a list request asks for, read
\* off the raw parameters.
RequestedSort(param) ==
    IF param \in {Some("due_date"), Some("priority"), Some("created_at")}
    THEN param[1] ELSE "created_at"

RequestedOrder(param) == IF param \in {Some("asc"), Some("desc")} THEN param[1] ELSE "desc"

StatusRecognized(param) == param \in {Some("todo"), Some("in_progress"), Some("done")}

\* The parameter is present and is not the decimal text of an integer >= 0.
BoundRejected(param) ==
    /\ ~IsNil(param)
    /\ Atoi(param[1]).err \/ Atoi(param[1]).val < 0

BoundAccepted(param) ==
    /\ ~IsNil(param)
    /\ ~Atoi(param[1]).err
    /\ Atoi(param[1]).val >= 0

Tokens(sql) == {sql[i] : i \in 1..Len(sql)}

StatusConditions == {"status = $" \o Itoa(i) : i \in 1..MaxPlaceholder}

MinConditions == {"story_points >= $" \o Itoa(i) : i \in 1..MaxPlaceholder}

MaxConditions == {"story_points <= $" \o Itoa(i) : i \in 1..MaxPlaceholder}

\* The predicates a request is entitled to, in the order status, min, max.
AcceptedPredicates(p) ==
    (IF StatusRecognized(p.status)
     THEN <<[text |-> "status = $", arg |-> TextArg(p.status[1])]>> ELSE <<>>)
    \o (IF BoundAccepted(p.story_points_min)
        THEN <<[text |-> "story_points >= $", arg |-> IntArg(Atoi(p.story_points_min[1]).val)]>>
        ELSE <<>>)
    \o (IF BoundAccepted(p.story_points_max)
        THEN <<[text |-> "story_points <= $", arg |-> IntArg(Atoi(p.story_points_max[1]).val)]>>
        ELSE <<>>)

(***************************************************************************)
(* C1                                                                      *)
(***************************************************************************)
WellFormed(p) ==
    [p EXCEPT !.sort_by = Some(RequestedSort(p.sort_by)),
              !.order   = Some(RequestedOrder(p.order)),
              !.status  = IF StatusRecognized(p.status) THEN p.status ELSE Nil]

\* C1: whatever sort_by, order and status are (absent, empty, unrecognized),
\* GetTodos answers no client error and sends a well-formed statement: the
\* statement and its arguments are those of the request with an unknown
\* sort_by replaced by created_at and an unknown order by desc, and an
\* unrecognized status yields no status condition and no text argument.
C1_MalformedParametersFallBack ==
    Listed =>
        /\ ~ClientError(last.code)
        /\ StatementOK(last.sql, last.args)
        /\ last.sql = ListQuery(WellFormed(last.req)).sql
        /\ last.args = ListQuery(WellFormed(last.req)).args
        /\ RequestedSort(last.req.sort_by) = "created_at" =>
               last.sql[Len(last.sql)] = "ORDER BY created_at " \o RequestedOrder(last.req.order)
        /\ ~StatusRecognized(last.req.status) =>
               /\ Tokens(last.sql) \cap StatusConditions = {}
               /\ \A i \in 1..Len(last.args) : last.args[i].t # "text"

C1_Witness ==
    /\ Listed
    /\ last.code = 200
    /\ last.req.sort_by = Some("title")
    /\ last.req.order = Some("ASC")
    /\ last.req.status = Some("archived")

(***************************************************************************)
(* C2                                                                      *)
(***************************************************************************)
WithoutMin(p) == [p EXCEPT !.story_points_min = Nil]

WithoutMax(p) == [p EXCEPT !.story_points_max = Nil]

\* C2: a story_points_min or story_points_max that is not the text of an
\* integer, or is the text of a negative one, adds no condition and no
\* argument and causes no error: the statement and the arguments are those
\* of the same request without that parameter.
C2_UnparsableBoundIsDropped ==
    Listed =>
        /\ BoundRejected(last.req.story_points_min) =>
               /\ ~ClientError(last.code)
               /\ StatementOK(last.sql, last.args)
               /\ Tokens(last.sql) \cap MinConditions = {}
               /\ last.sql = ListQuery(WithoutMin(last.req)).sql
               /\ last.args = ListQuery(WithoutMin(last.req)).args
        /\ BoundRejected(last.req.story_points_max) =>
               /\ ~ClientError(last.code)
               /\ StatementOK(last.sql, last.args)
               /\ Tokens(last.sql) \cap MaxConditions = {}
               /\ last.sql = ListQuery(WithoutMax(last.req)).sql
               /\ last.args = ListQuery(WithoutMax(last.req)).args

C2_Witness ==
    /\ Listed
    /\ last.code = 200
    /\ last.req.story_points_min = Some(<<"-", "1">>)
    /\ last.req.story_points_max = Some(<<"x">>)
    /\ last.req.status = Some("todo")
    /\ last.req.sort_by = Some("priority")
    /\ Len(last.args) = 1

(***************************************************************************)
(* C3                                                                      *)
(***************************************************************************)
\* Every line the statement may consist of.
FixedText ==
    {SelectList, "FROM todos", "WHERE", "AND",
     "ORDER BY due_date ASC NULLS LAST", "ORDER BY due_date DESC NULLS LAST",
     "ORDER BY CASE priority WHEN 'High' THEN 1 WHEN 'Medium' THEN 2 WHEN 'Low' THEN 3 END ASC",
     "ORDER BY CASE priority WHEN 'High' THEN 1 WHEN 'Medium' THEN 2 WHEN 'Low' THEN 3 END DESC",
     "ORDER BY created_at asc", "ORDER BY created_at desc"}
    \cup StatusConditions \cup MinConditions \cup MaxConditions

\* The requests with the sort field, the order and the accepted predicates of p.
SameShape(p) ==
    {ListRequest(s, o, st, lo, hi) :
        s  \in {x \in SortByParams : RequestedSort(x) = RequestedSort(p.sort_by)},
        o  \in {x \in OrderParams : RequestedOrder(x) = RequestedOrder(p.order)},
        st \in {x \in StatusParams : StatusRecognized(x) = StatusRecognized(p.status)},
        lo \in {x \in BoundParams : BoundAccepted(x) = BoundAccepted(p.story_points_min)},
        hi \in {x \in BoundParams : BoundAccepted(x) = BoundAccepted(p.story_points_max)}}

\* C3: the statement text carries no filter value: it consists of fixed
\* lines only, it is the same for all requests with the same sort field,
\* order and set of accepted predicates, and the status, minimum and maximum
\* are passed in the argument list.
C3_ValuesOnlyInArguments ==
    Listed =>
        /\ Tokens(last.sql) \subseteq FixedText
        /\ \A p \in SameShape(last.req) : ListQuery(p).sql = last.sql
        /\ StatusRecognized(last.req.status) =>
               \E i \in 1..Len(last.args) : last.args[i] = TextArg(last.req.status[1])
        /\ BoundAccepted(last.req.story_points_min) =>
               \E i \in 1..Len(last.args) :
                   last.args[i] = IntArg(Atoi(last.req.story_points_min[1]).val)
        /\ BoundAccepted(last.req.story_points_max) =>
               \E i \in 1..Len(last.args) :
                   last.args[i] = IntArg(Atoi(last.req.story_points_max[1]).val)

C3_Witness ==
    /\ Listed
    /\ last.req.status = Some("done")
    /\ last.req.story_points_min = Some(<<"2">>)
    /\ last.req.story_points_max = Some(<<"5">>)
    /\ last.args = <<TextArg("done"), IntArg(2), IntArg(5)>>
    /\ \E p \in SameShape(last.req) :
          /\ p.status = Some("todo")
          /\ p.story_points_min = Some(<<"5">>)
          /\ p.story_points_max = Some(<<"2">>)

(***************************************************************************)
(* C4                                                                      *)
(***************************************************************************)
\* C4: the WHERE clause lists exactly the accepted predicates, in the order
\* status, minimum, maximum, joined by AND; the i-th uses placeholder $i and
\* the i-th argument is its value; without an accepted predicate there is no
\* WHERE clause.
C4_WhereClauseShape ==
    Listed =>
        LET acc == AcceptedPredicates(last.req)
            n   == Len(acc)
        IN  /\ Len(last.args) = n
            /\ \A i \in 1..n : last.args[i] = acc[i].arg
            /\ Len(last.sql) = 3 + 2 * n
            /\ n = 0 => "WHERE" \notin Tokens(last.sql)
            /\ n > 0 => last.sql[3] = "WHERE"
            /\ \A i \in 1..n : last.sql[2 + 2 * i] = acc[i].text \o Itoa(i)
            /\ \A i \in 2..n : last.sql[1 + 2 * i] = "AND"

C4_Witness ==
    /\ Listed
    /\ last.code = 200
    /\ last.sql[3] = "WHERE"
    /\ last.sql[4] = "status = $1"
    /\ last.sql[5] = "AND"
    /\ last.sql[6] = "story_points >= $2"
    /\ last.sql[7] = "AND"
    /\ last.sql[8] = "story_points <= $3"
    /\ Len(last.sql) = 9

(***************************************************************************)
(* C5                                                                      *)
(***************************************************************************)
MinAboveMax(p) ==
    /\ BoundAccepted(p.story_points_min)
    /\ BoundAccepted(p.story_points_max)
    /\ Atoi(p.story_points_min[1]).val > Atoi(p.story_points_max[1]).val

\* C5: with a valid minimum above a valid maximum, both conditions are sent
\* with the values as given, minimum first, and the listing is empty.
C5_MinAboveMaxPassesThrough ==
    (Listed /\ MinAboveMax(last.req)) =>
        LET n == Len(last.args)
        IN  /\ n >= 2
            /\ last.sql[Len(last.sql) - 3] = "story_points >= $" \o Itoa(n - 1)
            /\ last.sql[Len(last.sql) - 1] = "story_points <= $" \o Itoa(n)
            /\ last.args[n - 1] = IntArg(Atoi(last.req.story_points_min[1]).val)
            /\ last.args[n] = IntArg(Atoi(last.req.story_points_max[1]).val)
            /\ last.code = 200 => last.rows = <<>>

C5_Witness ==
    /\ Listed
    /\ last.code = 200
    /\ last.req.story_points_min = Some(<<"5">>)
    /\ last.req.story_points_max = Some(<<"2">>)
    /\ \E id \in DOMAIN todos : todos[id].story_points = Some(5)
    /\ \E id \in DOMAIN todos : todos[id].story_points = Some(2)
    /\ last.rows = <<>>

(***************************************************************************)
(* C6                                                                      *)
(***************************************************************************)
\* C6: sorted by due_date, in either direction, no task without a due date
\* comes before a task with one, and the tasks with a due date come in the
\* requested direction.
C6_DueDateNullsLast ==
    (Listed /\ last.code = 200 /\ RequestedSort(last.req.sort_by) = "due_date") =>
        \A i, j \in 1..Len(last.rows) :
            i < j =>
                /\ IsNil(last.rows[i].due_date) => IsNil(last.rows[j].due_date)
                /\ (~IsNil(last.rows[i].due_date) /\ ~IsNil(last.rows[j].due_date)) =>
                       IF RequestedOrder(last.req.order) = "asc"
                       THEN last.rows[i].due_date[1] <= last.rows[j].due_date[1]
                       ELSE last.rows[i].due_date[1] >= last.rows[j].due_date[1]

C6_Witness ==
    /\ Listed
    /\ last.code = 200
    /\ last.req.sort_by = Some("due_date")
    /\ last.req.order = Some("desc")
    /\ Len(last.rows) = 3
    /\ last.rows[1].due_date = Some(2)
    /\ last.rows[2].due_date = Some(1)
    /\ last.rows[3].due_date = Nil
    /\ todos[1].due_date = Nil

(***************************************************************************)
(* C7                                                                      *)
(***************************************************************************)
RankOf(priority) ==
    CASE priority = "High" -> 1 [] priority = "Medium" -> 2 [] priority = "Low" -> 3

\* C7: sorted by priority, the tasks come by the rank High=1, Medium=2,
\* Low=3: rising for asc (High first), falling for desc (Low first).
C7_PriorityByRank ==
    (Listed /\ last.code = 200 /\ RequestedSort(last.req.sort_by) = "priority") =>
        \A i, j \in 1..Len(last.rows) :
            i < j =>
                IF RequestedOrder(last.req.order) = "asc"
                THEN RankOf(last.rows[i].priority) <= RankOf(last.rows[j].priority)
                ELSE RankOf(last.rows[i].priority) >= RankOf(last.rows[j].priority)

C7_Witness ==
    /\ Listed
    /\ last.code = 200
    /\ last.req.sort_by = Some("priority")
    /\ last.req.order = Some("asc")
    /\ Len(last.rows) = 3
    /\ last.rows[1].priority = "High"
    /\ last.rows[2].priority = "Medium"
    /\ last.rows[3].priority = "Low"
    /\ todos[1].priority = "Low"

(***************************************************************************)
(* C8, C9, C10: UpdateTodo on an existing task                             *)
(***************************************************************************)
\* The last request was an UpdateTodo that addressed a stored task.
UpdatedExisting == last.op = "UpdateTodo" /\ ~IsNil(last.before)

Target == ParseInt(last.id).val

\* C8: an UpdateTodo whose title is empty or absent leaves the stored title
\* as it was, and no stored task ever has an empty title.
C8_EmptyTitleKeepsTitle ==
    /\ (UpdatedExisting /\ JSONString(last.req.title) = "") =>
           todos[Target].title = last.before[1].title
    /\ \A id \in DOMAIN todos : todos[id].title # ""

\* C9: a successful UpdateTodo that carries description = "" on a task with a
\* non-empty description clears it: the task returned has an empty
\* description, and so has the stored task a later GetTodo reads.
C9_EmptyDescriptionClears ==
    (/\ UpdatedExisting
     /\ last.code = 200
     /\ ~IsNil(last.before[1].description)
     /\ last.req.description = Some("")) =>
        /\ last.todo[1].description = ""
        /\ ScanTodo(todos[Target]).description = ""

\* C10: an UpdateTodo whose priority is absent or empty succeeds (storage
\* being available) and leaves the stored priority as it was.
C10_AbsentPriorityKeepsPriority ==
    (/\ UpdatedExisting
     /\ last.code # 500
     /\ JSONString(last.req.priority) = "") =>
        /\ last.code = 200
        /\ todos[Target].priority = last.before[1].priority

(***************************************************************************)
(* Specification SpecMerge: tasks are created, updated with every          *)
(* combination of absent, empty, valid and invalid status, due date,       *)
(* priority and story points, and deleted.                                 *)
(***************************************************************************)
MaxMergeTodos == 1

MergeCreatePayloads ==
    {Payload(Some("Buy milk"), Nil, st, due, pr, sp) :
        st \in {Nil, Some("archived")}, due \in {Nil, Some(1)},
        pr \in {Nil, Some("Medium"), Some("Urgent")}, sp \in {Nil, Some(3), Some(4)}}

MergeUpdatePayloads ==
    {Payload(Some("Buy milk"), Nil, st, due, pr, sp) :
        st \in {Nil, Some(""), Some("done"), Some("archived")}, due \in {Nil, Some(2)},
        pr \in {Nil, Some(""), Some("High"), Some("Urgent")}, sp \in {Nil, Some(4), Some(5)}}

MergeIdParams == {<<Itoa(i)>> : i \in 1..(MaxMergeTodos + 1)}

CreateForMerge ==
    /\ Idle
    /\ nextId <= MaxMergeTodos
    /\ \E payload \in MergeCreatePayloads, dbOK \in BOOLEAN : CreateTodo(payload, dbOK)

UpdateMerging ==
    /\ Idle
    /\ \E idParam \in MergeIdParams, payload \in MergeUpdatePayloads, dbOK \in BOOLEAN :
           UpdateTodo(idParam, payload, dbOK)

DeleteMerged ==
    /\ Idle
    /\ \E idParam \in MergeIdParams, dbOK \in BOOLEAN : DeleteTodo(idParam, dbOK)

NextMerge == CreateForMerge \/ UpdateMerging \/ DeleteMerged \/ Deliver

SpecMerge == Init /\ [][NextMerge]_vars

\* C11: an UpdateTodo leaves the stored status as it was when the payload's
\* status is absent or empty, the due date as it was when due_date is absent,
\* and the story points as they were when story_points is absent; each of
\* the three changes only to a value the payload carries.
C11_AbsentFieldsKeepStoredValues ==
    UpdatedExisting =>
        LET old == last.before[1]
            new == todos[Target]
        IN  /\ JSONString(last.req.status) = "" => new.status = old.status
            /\ IsNil(last.req.due_date) => new.due_date = old.due_date
            /\ IsNil(last.req.story_points) => new.story_points = old.story_points
            /\ new.status # old.status => last.req.status = Some(new.status)
            /\ new.due_date # old.due_date =>
                   ~IsNil(last.req.due_date) /\ new.due_date = last.req.due_date
            /\ new.story_points # old.story_points =>
                   ~IsNil(last.req.story_points) /\ new.story_points = last.req.story_points

C11_Witness ==
    /\ UpdatedExisting
    /\ last.code = 200
    /\ last.req.status = Some("")
    /\ IsNil(last.req.due_date)
    /\ IsNil(last.req.story_points)
    /\ todos[Target].status = "done"
    /\ todos[Target].due_date = Some(2)
    /\ todos[Target].story_points = Some(5)

\* What the interface accepts in a payload: status and priority absent, empty
\* or one of their enumerated words, story points absent or in the set.
Unrecognized(member, words) == JSONString(member) # "" /\ JSONString(member) \notin words

BadStoryPoints(payload) ==
    ~IsNil(payload.story_points) /\ payload.story_points[1] \notin validStoryPoints

InvalidPayload(payload) ==
    \/ Unrecognized(payload.status, validStatuses)
    \/ Unrecognized(payload.priority, validPriorities)
    \/ BadStoryPoints(payload)

\* C12: an UpdateTodo whose id names no stored task, with a payload of valid
\* or absent members and storage available, answers NotFound and changes
\* nothing in storage.
C12_MissingTaskIsNotFound ==
    [][(/\ Idle
        /\ last'.op = "UpdateTodo"
        /\ ~ParseInt(last'.id).err
        /\ ParseInt(last'.id).val \notin DOMAIN todos
        /\ ~InvalidPayload(last'.req)
        /\ last'.code # 500) =>
           /\ last'.code = 404
           /\ todos' = todos
           /\ subtasks' = subtasks]_vars

\* C13: an UpdateTodo whose status, priority or story points is outside its
\* set is answered with a validation error whether or not storage is
\* available, and the stored task it addresses keeps every field.
C13_InvalidUpdateRejectedUntouched ==
    (/\ last.op = "UpdateTodo"
     /\ ~ParseInt(last.id).err
     /\ InvalidPayload(last.req)) =>
        /\ last.code = 400
        /\ ~IsNil(last.before) => todos[Target] = last.before[1]

C13_Witness ==
    /\ UpdatedExisting
    /\ last.req.status = Some("archived")
    /\ last.req.priority = Some("High")
    /\ IsNil(last.req.story_points)
    /\ last.code = 400
    /\ todos[Target].status = "done"

\* C14: a CreateTodo whose story points are outside {1, 2, 3, 5, 8} is
\* rejected and inserts nothing; a CreateTodo with a title, story points in
\* the set and nothing invalid succeeds (storage being available) and stores
\* the story points.
C14_StoryPointsValidatedOnCreate ==
    [][(Idle /\ last'.op = "CreateTodo") =>
           /\ BadStoryPoints(last'.req) => (last'.code = 400 /\ todos' = todos)
           /\ (/\ JSONString(last'.req.title) # ""
               /\ ~IsNil(last'.req.story_points)
               /\ ~InvalidPayload(last'.req)
               /\ last'.code # 500) =>
                  /\ last'.code = 201
                  /\ todos'[last'.todo[1].id].story_points = last'.req.story_points]_vars

\* C15: in every reachable state every stored task's story points are absent
\* or one of 1, 2, 3, 5, 8, and a request carrying any other value is
\* rejected.
C15_StoredStoryPointsInSet ==
    /\ \A id \in DOMAIN todos :
           IsNil(todos[id].story_points) \/ todos[id].story_points[1] \in validStoryPoints
    /\ (last.op \in {"CreateTodo", "UpdateTodo"} /\ BadStoryPoints(last.req)) => last.code = 400

C15_Witness ==
    /\ UpdatedExisting
    /\ last.req.story_points = Some(4)
    /\ ~Unrecognized(last.req.status, validStatuses)
    /\ last.req.priority = Some("High")
    /\ last.code = 400
    /\ todos[Target].story_points = Some(5)

\* C16: in every reachable state every stored task's status is one of todo,
\* in_progress, done and its priority one of High, Medium, Low; a request
\* carrying an unrecognized status or priority is rejected, and no stored
\* task takes another value in its place.
C16_StoredEnumsInSet ==
    /\ \A id \in DOMAIN todos :
           todos[id].status \in validStatuses /\ todos[id].priority \in validPriorities
    /\ (/\ last.op \in {"CreateTodo", "UpdateTodo"}
        /\ \/ Unrecognized(last.req.status, validStatuses)
           \/ Unrecognized(last.req.priority, validPriorities)) =>
           /\ last.code = 400
           /\ IsNil(last.todo)

C16_Witness ==
    /\ UpdatedExisting
    /\ last.req.priority = Some("Urgent")
    /\ IsNil(last.req.status)
    /\ IsNil(last.req.story_points)
    /\ last.code = 400
    /\ todos[Target].priority = "High"
    /\ todos[Target].status = "done"

\* C17: a CreateTodo whose payload holds only a non-empty title succeeds
\* (storage being available) and the created task has status todo, priority
\* Medium, no due date, no story points and an empty description.
C17_TitleOnlyCreateTakesDefaults ==
    (/\ last.op = "CreateTodo"
     /\ JSONString(last.req.title) # ""
     /\ IsNil(last.req.description)
     /\ IsNil(last.req.status)
     /\ IsNil(last.req.due_date)
     /\ IsNil(last.req.priority)
     /\ IsNil(last.req.story_points)
     /\ last.code # 500) =>
        /\ last.code = 201
        /\ last.todo[1].status = "todo"
        /\ last.todo[1].priority = "Medium"
        /\ IsNil(last.todo[1].due_date)
        /\ IsNil(last.todo[1].story_points)
        /\ last.todo[1].description = ""

(***************************************************************************)
(* Specification SpecRoundTrip: a client creates tasks from every          *)
(* combination of absent, empty, valid and invalid members and reads each  *)
(* created task back by the id the create returned.                        *)
(***************************************************************************)
MaxRoundTripTodos == 2

RoundTripPayloads ==
    {Payload(t, d, st, due, pr, sp) :
        t \in {Nil, Some(""), Some("Buy milk")}, d \in {Nil, Some(""), Some("Milk, eggs")},
        st \in {Nil, Some("done"), Some("archived")}, due \in {Nil, Some(1)},
        pr \in {Nil, Some("Low"), Some("Urgent")}, sp \in {Nil, Some(4), Some(5)}}

CreateForRoundTrip ==
    /\ Idle
    /\ nextId <= MaxRoundTripTodos
    /\ \E payload \in RoundTripPayloads, dbOK \in BOOLEAN : CreateTodo(payload, dbOK)

Created == last.op = "CreateTodo" /\ last.code = 201

\* The client takes the id of the task the create returned and gets it.
ReadBack ==
    /\ Created
    /\ \E dbOK \in BOOLEAN : GetTodo(<<Itoa(last.todo[1].id)>>, dbOK)

NextRoundTrip == CreateForRoundTrip \/ ReadBack \/ Deliver

SpecRoundTrip == Init /\ [][NextRoundTrip]_vars

SameContent(a, b) ==
    /\ a.title = b.title
    /\ a.description = b.description
    /\ a.status = b.status
    /\ a.due_date = b.due_date
    /\ a.priority = b.priority
    /\ a.story_points = b.story_points

\* C18: a GetTodo on the id a successful CreateTodo returned, with nothing
\* in between, returns (storage being available) a task equal to the created
\* one in title, description, status, due date, priority and story points,
\* carrying the payload's title, due date and story points; when the
\* payload's description was absent or empty the description read is empty.
C18_CreateThenGetRoundTrip ==
    [][(/\ Created
        /\ last'.op = "GetTodo"
        /\ last'.id = <<Itoa(last.todo[1].id)>>
        /\ last'.code # 500) =>
           /\ last'.code = 200
           /\ SameContent(last'.todo[1], last.todo[1])
           /\ last'.todo[1].title = JSONString(last.req.title)
           /\ last'.todo[1].description = JSONString(last.req.description)
           /\ last'.todo[1].due_date = last.req.due_date
           /\ last'.todo[1].story_points = last.req.story_points]_vars

C18_Witness ==
    /\ last.op = "GetTodo"
    /\ last.code = 200
    /\ last.id = <<"2">>
    /\ last.todo[1].description = ""
    /\ last.todo[1].status = "done"
    /\ last.todo[1].due_date = Some(1)
    /\ last.todo[1].story_points = Some(5)

(***************************************************************************)
(* Specification SpecSub: tasks are created and deleted while subtasks are *)
(* created, updated and deleted; a CreateSubtask that has verified its     *)
(* parent is in flight while other requests are handled.                   *)
(***************************************************************************)
MaxSubTodos == 2

MaxSubtasks == 2

SubTodoParams == {<<Itoa(i)>> : i \in 1..(MaxSubTodos + 1)} \cup {<<"x">>}

SubtaskParams == {<<Itoa(i)>> : i \in 1..(MaxSubtasks + 1)} \cup {<<"x">>}

CreateSubtaskPayloads == {SubtaskPayload(t, Nil) : t \in {Nil, Some("Call vet")}}

UpdateSubtaskPayloads ==
    {SubtaskPayload(t, c) : t \in {Nil, Some("Call groomer")}, c \in {Nil, Some(TRUE)}}

CreateParent ==
    /\ Idle
    /\ nextId <= MaxSubTodos
    /\ CreateTodo(Payload(Some("Walk dog"), Nil, Nil, Nil, Some("High"), Nil), TRUE)

DeleteParent ==
    /\ Idle
    /\ \E idParam \in SubTodoParams, dbOK \in BOOLEAN : DeleteTodo(idParam, dbOK)

VerifyParent ==
    /\ Idle
    /\ nextSubId <= MaxSubtasks
    /\ \E idParam \in SubTodoParams, payload \in CreateSubtaskPayloads, pool \in PoolStates :
           CreateSubtaskVerify(idParam, payload, pool)

InsertSubtask ==
    /\ Idle
    /\ \E pool \in {"ok", "fails"} : CreateSubtaskInsert(pool)

UpdateSub ==
    /\ Idle
    /\ \E idParam \in SubTodoParams, subtaskParam \in SubtaskParams,
          payload \in UpdateSubtaskPayloads, pool \in PoolStates :
           UpdateSubtask(idParam, subtaskParam, payload, pool)

DeleteSub ==
    /\ Idle
    /\ \E idParam \in SubTodoParams, subtaskParam \in SubtaskParams, pool \in PoolStates :
           DeleteSubtask(idParam, subtaskParam, pool)

ListSub ==
    /\ Idle
    /\ \E idParam \in SubTodoParams, pool \in PoolStates : GetSubtasks(idParam, pool)

NextSub ==
    CreateParent \/ DeleteParent \/ VerifyParent \/ InsertSubtask \/ UpdateSub \/ DeleteSub
        \/ ListSub \/ Deliver

SpecSub == Init /\ [][NextSub]_vars

\* C19: in every reachable state the todo_id of every stored subtask is the
\* id of a stored task, whatever the order of DeleteTodo and the two
\* statements of CreateSubtask: an insert that comes after the delete of its
\* parent stores nothing.
C19_SubtaskNeverOutlivesTask ==
    /\ \A s \in DOMAIN subtasks : subtasks[s].todo_id \in DOMAIN todos
    /\ (last.op = "CreateSubtask" /\ last.code = 201) =>
           last.subtask[1].todo_id \in DOMAIN todos

C19_Witness ==
    /\ last.op = "CreateSubtask"
    /\ last.code = 500
    /\ last.details = "SQLSTATE 23503"
    /\ ParseInt(last.id).val \notin DOMAIN todos
    /\ nextSubId = 3
    /\ DOMAIN subtasks = {1}
    /\ subtasks[1].todo_id \in DOMAIN todos

\* C20: a CreateSubtask or UpdateSubtask whose task id names no stored task
\* is answered (storage being available) with a NotFound that names the task
\* and writes nothing; an UpdateSubtask on a stored task whose subtask id
\* names none of its subtasks is answered with a NotFound that differs.
C20_ParentVerifiedFirst ==
    [][(/\ Idle
        /\ last'.op \in {"CreateSubtask", "UpdateSubtask"}
        /\ last'.op = "CreateSubtask" => IsNil(inflight)
        /\ ~ParseInt(last'.id).err
        /\ last'.op = "UpdateSubtask" => ~ParseInt(last'.subtaskId).err
        /\ last'.code # 500) =>
           IF ParseInt(last'.id).val \notin DOMAIN todos
           THEN /\ last'.code = 404
                /\ last'.error = "Todo not found"
                /\ subtasks' = subtasks
           ELSE (last'.op = "UpdateSubtask" /\ last'.code = 404) =>
                    last'.error # "Todo not found"]_vars

(***************************************************************************)
(* Specification SpecOwn: two tasks and their subtasks are created,        *)
(* updated and deleted; subtasks are addressed through their own and       *)
(* through the other task's id.                                            *)
(***************************************************************************)
MaxOwnTodos == 2

MaxOwnSubtasks == 2

OwnTodoParams == {<<Itoa(i)>> : i \in 1..MaxOwnTodos}

OwnSubtaskParams == {<<Itoa(i)>> : i \in 1..(MaxOwnSubtasks + 1)}

OwnSubtaskPayloads ==
    {SubtaskPayload(t, c) :
        t \in {Nil, Some(""), Some("Call groomer")}, c \in {Nil, Some(FALSE), Some(TRUE)}}

CreateOwner ==
    /\ Idle
    /\ nextId <= MaxOwnTodos
    /\ CreateTodo(Payload(Some("Walk dog"), Nil, Nil, Nil, Some("High"), Nil), TRUE)

VerifyOwner ==
    /\ Idle
    /\ nextSubId <= MaxOwnSubtasks
    /\ \E idParam \in OwnTodoParams : CreateSubtaskVerify(idParam, SubtaskPayload(Some("Call vet"), Nil), "ok")

InsertOwned ==
    /\ Idle
    /\ CreateSubtaskInsert("ok")

UpdateOwned ==
    /\ Idle
    /\ \E idParam \in OwnTodoParams, subtaskParam \in OwnSubtaskParams,
          payload \in OwnSubtaskPayloads, pool \in {"ok", "fails"} :
           UpdateSubtask(idParam, subtaskParam, payload, pool)

DeleteOwned ==
    /\ Idle
    /\ \E idParam \in OwnTodoParams, subtaskParam \in OwnSubtaskParams, pool \in {"ok", "fails"} :
           DeleteSubtask(idParam, subtaskParam, pool)

NextOwn ==
    CreateOwner \/ VerifyOwner \/ InsertOwned \/ UpdateOwned \/ DeleteOwned \/ Deliver

SpecOwn == Init /\ [][NextOwn]_vars

\* The request names a stored task and a stored subtask of another task.
ThroughOtherParent ==
    /\ last.op \in {"UpdateSubtask", "DeleteSubtask"}
    /\ ~IsNil(last.before)
    /\ ParseInt(last.id).val \in DOMAIN todos
    /\ last.before[1].todo_id # ParseInt(last.id).val

\* C22: an UpdateSubtask or DeleteSubtask that names a stored subtask
\* through a task it does not belong to is answered NotFound (storage being
\* available) and leaves the subtask as it was; every stored subtask that
\* was changed or deleted was addressed through its own task.
C22_OnlyThroughOwnParent ==
    /\ (ThroughOtherParent /\ last.code # 500) =>
           /\ last.code = 404
           /\ last.error = "Subtask not found"
    /\ ThroughOtherParent =>
           /\ last.before[1].id \in DOMAIN subtasks
           /\ subtasks[last.before[1].id] = last.before[1]
    /\ (last.op \in {"UpdateSubtask", "DeleteSubtask"} /\ last.code \in {200, 204}) =>
           last.before[1].todo_id = ParseInt(last.id).val

C22_Witness ==
    /\ ThroughOtherParent
    /\ last.op = "DeleteSubtask"
    /\ last.code = 404
    /\ Cardinality(DOMAIN subtasks) = 2

(***************************************************************************)
(* Specification SpecStamp: a task and its subtask are created and updated *)
(* while time passes.                                                      *)
(***************************************************************************)
MaxStampTodos == 1

MaxStampSubtasks == 1

StampTodoParams == {<<Itoa(i)>> : i \in 1..(MaxStampTodos + 1)}

StampSubtaskParams == {<<Itoa(i)>> : i \in 1..(MaxStampSubtasks + 1)}

StampTodoPayloads ==
    {Payload(Nil, Nil, Nil, Nil, pr, Nil) : pr \in {Nil, Some("Low")}}

StampSubtaskPayloads ==
    {SubtaskPayload(t, c) : t \in {Nil, Some(""), Some("Call groomer")}, c \in {Nil, Some(TRUE)}}

CreateStamped ==
    /\ Idle
    /\ nextId <= MaxStampTodos
    /\ CreateTodo(Payload(Some("Walk dog"), Nil, Nil, Nil, Some("High"), Nil), TRUE)

UpdateStamped ==
    /\ Idle
    /\ \E idParam \in StampTodoParams, payload \in StampTodoPayloads, dbOK \in BOOLEAN :
           UpdateTodo(idParam, payload, dbOK)

VerifyStamped ==
    /\ Idle
    /\ nextSubId <= MaxStampSubtasks
    /\ \E idParam \in StampTodoParams :
           CreateSubtaskVerify(idParam, SubtaskPayload(Some("Call vet"), Nil), "ok")

InsertStamped ==
    /\ Idle
    /\ CreateSubtaskInsert("ok")

UpdateStampedSubtask ==
    /\ Idle
    /\ \E idParam \in StampTodoParams, subtaskParam \in StampSubtaskParams,
          payload \in StampSubtaskPayloads :
           UpdateSubtask(idParam, subtaskParam, payload, "ok")

NextStamp ==
    CreateStamped \/ UpdateStamped \/ VerifyStamped \/ InsertStamped \/ UpdateStampedSubtask
        \/ Tick \/ Deliver

SpecStamp == Init /\ [][NextStamp]_vars

UpdatedStampedSubtask ==
    /\ last.op = "UpdateSubtask"
    /\ last.code = 200

\* C21: a successful UpdateSubtask keeps the stored title when the payload's
\* title is empty or absent and stores the payload's title otherwise, stores
\* the payload's completed (false when the payload has none) and sets
\* updated_at to the time of the update; nothing else of the row changes.
C21_SubtaskUpdatePolicy ==
    UpdatedStampedSubtask =>
        LET old == last.before[1]
            new == subtasks[old.id]
        IN  /\ new.title = IF JSONString(last.req.title) = "" THEN old.title
                           ELSE last.req.title[1]
            /\ new.completed = (last.req.completed = Some(TRUE))
            /\ new.updated_at = now
            /\ new = [old EXCEPT !.title = new.title, !.completed = new.completed,
                                 !.updated_at = new.updated_at]
            /\ last.subtask = Some(new)

C21_Witness ==
    /\ UpdatedStampedSubtask
    /\ IsNil(last.req.title)
    /\ IsNil(last.req.completed)
    /\ last.before[1].completed
    /\ last.before[1].title = "Call groomer"
    /\ subtasks[last.before[1].id].title = "Call groomer"
    /\ ~subtasks[last.before[1].id].completed
    /\ subtasks[last.before[1].id].updated_at > last.before[1].updated_at

\* What a step may do to the stamps of the rows of one table.
StampsKept(old, new) ==
    \A id \in DOMAIN old \cap DOMAIN new :
        /\ new[id].id = old[id].id
        /\ new[id].created_at = old[id].created_at
        /\ new[id].updated_at >= old[id].updated_at
        /\ new[id].updated_at >= new[id].created_at

Answered(op) == Idle /\ last'.op = op

\* C25: through every step each task and subtask keeps its id and
\* created_at, and its updated_at neither decreases nor precedes created_at;
\* a successful UpdateTodo or UpdateSubtask leaves the row it addressed with
\* updated_at equal to the time of the update, and one that is rejected or
\* finds no row leaves every row, updated_at included, as it was.
C25_StampsThroughUpdates ==
    [][/\ StampsKept(todos, todos')
       /\ StampsKept(subtasks, subtasks')
       /\ \A id \in DOMAIN todos' : todos'[id].id = id
       /\ \A id \in DOMAIN subtasks' : subtasks'[id].id = id
       /\ (Answered("UpdateTodo") /\ last'.code = 200) =>
              todos'[ParseInt(last'.id).val].updated_at = now
       /\ (Answered("UpdateSubtask") /\ last'.code = 200) =>
              subtasks'[ParseInt(last'.subtaskId).val].updated_at = now
       /\ ((Answered("UpdateTodo") \/ Answered("UpdateSubtask")) /\ last'.code # 200) =>
              (todos' = todos /\ subtasks' = subtasks)]_vars

C25_Witness ==
    /\ last.op = "UpdateTodo"
    /\ last.code = 404
    /\ \E id \in DOMAIN todos :
           /\ todos[id].created_at < todos[id].updated_at
           /\ todos[id].priority = "Low"
    /\ \E s \in DOMAIN subtasks :
           /\ subtasks[s].created_at < subtasks[s].updated_at
           /\ subtasks[s].title = "Call groomer"

(***************************************************************************)
(* Specification SpecRace: while one UpdateTodo is in flight between its   *)
(* validation and its statement, other clients update, get and delete the  *)
(* same tasks.                                                             *)
(***************************************************************************)
MaxRaceTodos == 1

RaceIdParams == {<<Itoa(i)>> : i \in 1..(MaxRaceTodos + 1)}

\* One request carries a status and the other a due date; each comes with
\* and without the title and the priority the task already has.
RacePayloads ==
    {Payload(t, Nil, Some("done"), Nil, pr, Nil) :
        t \in {Nil, Some("Walk dog")}, pr \in {Nil, Some("High")}}
    \cup
    {Payload(t, Nil, Nil, Some(2), pr, Nil) :
        t \in {Nil, Some("Walk dog")}, pr \in {Nil, Some("High")}}

CreateRaced ==
    /\ Idle
    /\ nextId <= MaxRaceTodos
    /\ CreateTodo(Payload(Some("Walk dog"), Nil, Nil, Nil, Some("High"), Nil), TRUE)

BeginUpdate ==
    /\ Idle
    /\ \E idParam \in RaceIdParams, payload \in RacePayloads : UpdateTodoBind(idParam, payload)

FinishUpdate ==
    /\ Idle
    /\ \E dbOK \in BOOLEAN : UpdateTodoStatement(dbOK)

UpdateRacing ==
    /\ Idle
    /\ \E idParam \in RaceIdParams, payload \in RacePayloads, dbOK \in BOOLEAN :
           UpdateTodo(idParam, payload, dbOK)

GetRaced ==
    /\ Idle
    /\ \E idParam \in RaceIdParams, dbOK \in BOOLEAN : GetTodo(idParam, dbOK)

DeleteRaced ==
    /\ Idle
    /\ \E idParam \in RaceIdParams, dbOK \in BOOLEAN : DeleteTodo(idParam, dbOK)

NextRace ==
    CreateRaced \/ BeginUpdate \/ FinishUpdate \/ UpdateRacing \/ GetRaced \/ DeleteRaced
        \/ Deliver

SpecRace == Init /\ [][NextRace]_vars

\* The payload carries one of status and due_date and nothing else.
OnlyStatus(payload) ==
    payload = Payload(Nil, Nil, payload.status, Nil, Nil, Nil) /\ ~IsNil(payload.status)

OnlyDueDate(payload) ==
    payload = Payload(Nil, Nil, Nil, payload.due_date, Nil, Nil) /\ ~IsNil(payload.due_date)

\* C23: an UpdateTodo that carries only a status, or only a due date, and
\* reaches a stored task (storage being available) succeeds, stores its
\* value and leaves the other of the two fields as the row holds it at that
\* moment, whatever other update was applied since the request was bound;
\* so of two such requests neither undoes the other.
C23_ConcurrentUpdatesBothKept ==
    [][(/\ Idle
        /\ last'.op = "UpdateTodo"
        /\ ParseInt(last'.id).val \in DOMAIN todos
        /\ OnlyStatus(last'.req) \/ OnlyDueDate(last'.req)
        /\ last'.code # 500) =>
           LET old == todos[ParseInt(last'.id).val]
               new == todos'[ParseInt(last'.id).val]
           IN  /\ last'.code = 200
               /\ OnlyStatus(last'.req) =>
                      (new.status = last'.req.status[1] /\ new.due_date = old.due_date)
               /\ OnlyDueDate(last'.req) =>
                      (new.due_date = last'.req.due_date /\ new.status = old.status)]_vars

\* The id was handed out and its task is stored no more: it was deleted.
Deleted(id) == id < nextId /\ id \notin DOMAIN todos

\* C24: a DeleteTodo answers (storage being available) success and removes
\* the task when the id names a stored one, and NotFound with storage as it
\* was when it does not; no id is handed out twice; and a GetTodo, UpdateTodo
\* or DeleteTodo whose id names a deleted task answers NotFound and writes
\* nothing, also when the update was bound before the delete.
C24_DeletedStaysNotFound ==
    [][/\ (Idle /\ last'.op = "DeleteTodo" /\ ~ParseInt(last'.id).err /\ last'.code # 500) =>
              IF ParseInt(last'.id).val \in DOMAIN todos
              THEN last'.code = 204 /\ ParseInt(last'.id).val \notin DOMAIN todos'
              ELSE last'.code = 404 /\ todos' = todos /\ subtasks' = subtasks
       /\ nextId' >= nextId
       /\ \A id \in DOMAIN todos' : id \in DOMAIN todos \/ id = nextId
       /\ (/\ Idle
           /\ last'.op \in {"GetTodo", "UpdateTodo", "DeleteTodo"}
           /\ ~ParseInt(last'.id).err
           /\ Deleted(ParseInt(last'.id).val)
           /\ last'.op = "UpdateTodo" => ~InvalidPayload(last'.req)
           /\ last'.code # 500) =>
              /\ last'.code = 404
              /\ todos' = todos
              /\ subtasks' = subtasks]_vars

\* The stored tasks a list request is entitled to: those that satisfy every
\* accepted predicate.
Matches(p, row) ==
    /\ StatusRecognized(p.status) => row.status = p.status[1]
    /\ BoundAccepted(p.story_points_min) =>
           (~IsNil(row.story_points) /\ row.story_points[1] >= Atoi(p.story_points_min[1]).val)
    /\ BoundAccepted(p.story_points_max) =>
           (~IsNil(row.story_points) /\ row.story_points[1] <= Atoi(p.story_points_max[1]).val)

Matching(p) == {id \in DOMAIN todos : Matches(p, todos[id])}

MatchBoundParams == {Nil, Some(<<"0">>), Some(<<"2">>), Some(<<"5">>), Some(<<"x">>)}

MatchRequests ==
    {ListRequest(Nil, Nil, st, lo, hi) :
        st \in {Nil, Some("done"), Some("archived")},
        lo \in MatchBoundParams, hi \in MatchBoundParams}

ListMatching ==
    /\ Idle
    /\ \E p \in MatchRequests, dbOK \in BOOLEAN : GetTodos(p, dbOK)

NextMatch == CreateForFilter \/ ListMatching \/ Deliver

SpecMatch == Init /\ [][NextMatch]_vars

\* C28: a successful GetTodos lists exactly the stored tasks that satisfy
\* every accepted predicate (status equal, story points within the inclusive
\* bounds), each once and as stored; a task without story points is not
\* listed when a bound is accepted, the bound 0 included.
C28_ListIsExactlyTheMatches ==
    (Listed /\ last.code = 200) =>
        /\ {last.rows[i].id : i \in 1..Len(last.rows)} = Matching(last.req)
        /\ Len(last.rows) = Cardinality(Matching(last.req))
        /\ \A i \in 1..Len(last.rows) : last.rows[i] = ScanTodo(todos[last.rows[i].id])
        /\ (BoundAccepted(last.req.story_points_min) \/ BoundAccepted(last.req.story_points_max)) =>
               \A i \in 1..Len(last.rows) : ~IsNil(last.rows[i].story_points)

C28_Witness ==
    /\ Listed
    /\ last.code = 200
    /\ last.req.story_points_min = Some(<<"0">>)
    /\ IsNil(last.req.story_points_max)
    /\ IsNil(last.req.status)
    /\ Len(last.rows) = 1
    /\ Cardinality(DOMAIN todos) = 2
    /\ \E id \in DOMAIN todos : IsNil(todos[id].story_points)

\* C27: a GetSubtasks on a stored task answers (storage being available)
\* with a sequence, never null, which is empty when the task has no
\* subtasks; on an id that names no stored task it answers NotFound.
C27_SubtaskListIsNeverNull ==
    (last.op = "GetSubtasks" /\ ~ParseInt(last.id).err /\ last.code # 500) =>
        IF ParseInt(last.id).val \in DOMAIN todos
        THEN /\ last.code = 200
             /\ ~last.body.null
             /\ last.body.items = last.rows
        ELSE /\ last.code = 404
             /\ last.error = "Todo not found"

(***************************************************************************)
(* KanbanBoard: the todos the board displays and its requests under way    *)
(***************************************************************************)
Status == {"todo", "in_progress", "done"}

\* The body of the PUT a status change sends: the new status with every
\* other member copied from the todo as the board displays it (an absent
\* due date or story points is left out).
StatusChangePayload(todo, newStatus) ==
    Payload(Some(todo.title), Some(todo.description), Some(newStatus), todo.due_date,
            Some(todo.priority), todo.story_points)

\* The body of the PUT the edit dialog sends.
EditPayload(todo, title) ==
    Payload(Some(title), Some(todo.description), Some(todo.status), todo.due_date,
            Some(todo.priority), todo.story_points)

\* prevTodos.map(t => t.id === updatedTodo.id ? updatedTodo : t)
ReplaceTodo(prevTodos, updatedTodo) ==
    [id \in DOMAIN prevTodos |-> IF id = updatedTodo.id THEN updatedTodo ELSE prevTodos[id]]

AwaitedBy(r) == last.op = "UpdateTodo" /\ last.id = <<Itoa(r.id)>> /\ last.req = r.payload

\* fetchTodos: todoApi.getAll without parameters, sent.
fetchTodos(dbOK) ==
    /\ pending = {}
    /\ GetTodos(ListRequest(Nil, Nil, Nil, Nil, Nil), dbOK)

\* fetchTodos after the await: the array received is displayed, or none
\* when the request failed.
fetchTodosSettled ==
    /\ last.op = "GetTodos"
    /\ board' = IF last.code = 200
                THEN [id \in {last.rows[i].id : i \in 1..Len(last.rows)} |->
                         CHOOSE t \in {last.rows[i] : i \in 1..Len(last.rows)} : t.id = id]
                ELSE <<>>
    /\ last' = NoLast
    /\ UNCHANGED <<todos, nextId, now, subtasks, nextSubId, inflight, pending>>

\* handleDragEnd up to its await: previousTodos is a copy of the whole list
\* displayed, the card moves at once and the PUT is sent.
handleDragEnd(todoId, newStatus) ==
    /\ todoId \in DOMAIN board
    /\ board[todoId].status # newStatus
    /\ pending' = pending \cup
           {[kind |-> "drag", id |-> todoId,
             payload |-> StatusChangePayload(board[todoId], newStatus),
             previousTodos |-> board]}
    /\ board' = [board EXCEPT ![todoId].status = newStatus]
    /\ UNCHANGED <<todos, nextId, now, last, subtasks, nextSubId, inflight>>

\* handleEditSubmit up to its await: the PUT is sent, the list is not touched.
handleEditSubmit(todoId, title) ==
    /\ todoId \in DOMAIN board
    /\ pending' = pending \cup
           {[kind |-> "edit", id |-> todoId,
             payload |-> EditPayload(board[todoId], title),
             previousTodos |-> <<>>]}
    /\ UNCHANGED <<todos, nextId, now, last, subtasks, nextSubId, inflight, board>>

\* The server handles the PUT of one request under way.
ServeUpdate(r, dbOK) == UpdateTodo(<<Itoa(r.id)>>, r.payload, dbOK)

\* After the await: on success the todo answered replaces the one displayed;
\* on failure a drag puts previousTodos back and an edit leaves the list.
UpdateSettled(r) ==
    /\ AwaitedBy(r)
    /\ board' = IF last.code = 200 THEN ReplaceTodo(board, last.todo[1])
                ELSE IF r.kind = "drag" THEN r.previousTodos
                ELSE board
    /\ pending' = pending \ {r}
    /\ last' = NoLast
    /\ UNCHANGED <<todos, nextId, now, subtasks, nextSubId, inflight>>

(***************************************************************************)
(* Specification SpecBoard: one board and one other client work on the     *)
(* same tasks; the board has up to MaxPending requests under way, each for *)
(* a different todo.                                                       *)
(***************************************************************************)
MaxBoardTodos == 2

MaxPending == 2

BoardIds == 1..MaxBoardTodos

CreateShown ==
    /\ Idle
    /\ nextId <= MaxBoardTodos
    /\ CreateTodo(Payload(Some("Walk dog"), Nil, Nil, Nil, Some("High"), Nil), TRUE)

\* Another client renames a task.
OtherClientUpdates ==
    /\ Idle
    /\ \E id \in BoardIds :
           UpdateTodo(<<Itoa(id)>>, Payload(Some("Walk cat"), Nil, Nil, Nil, Some("High"), Nil), TRUE)

OtherClientAnswered ==
    /\ \A r \in pending : ~AwaitedBy(r)
    /\ last.op # "GetTodos"
    /\ Deliver

Fetch ==
    /\ Idle
    /\ fetchTodos(TRUE)

Fetched ==
    /\ ~Idle
    /\ fetchTodosSettled

Free(todoId) == \A r \in pending : r.id # todoId

Drag ==
    /\ Idle
    /\ Cardinality(pending) < MaxPending
    /\ \E todoId \in BoardIds, newStatus \in Status :
           Free(todoId) /\ handleDragEnd(todoId, newStatus)

Edit ==
    /\ Idle
    /\ Cardinality(pending) < MaxPending
    /\ \E todoId \in BoardIds : Free(todoId) /\ handleEditSubmit(todoId, "Walk cat")

Serve ==
    /\ Idle
    /\ \E r \in pending, dbOK \in BOOLEAN : ServeUpdate(r, dbOK)

Settle == \E r \in pending : UpdateSettled(r)

NextBoard ==
    CreateShown \/ OtherClientUpdates \/ OtherClientAnswered \/ Fetch \/ Fetched \/ Drag
        \/ Edit \/ Serve \/ Settle

SpecBoard == Init /\ [][NextBoard]_vars

\* C29: when the request of a drag fails, the board displays the dragged
\* todo as it was before the drag, and every other todo that no request
\* still under way is about (its displayed change, if any, was confirmed by
\* the server) stays displayed as it was just before the failure.
C29_FailedDragRevertsOnlyItself ==
    [][\A r \in pending \ pending' :
          (r.kind = "drag" /\ last.code # 200) =>
              /\ board'[r.id] = r.previousTodos[r.id]
              /\ \A t \in DOMAIN board :
                    (t # r.id /\ ~\E q \in pending' : q.id = t) => board'[t] = board[t]]_vars

\* C30: the PUT of a status change, when it succeeds, changes the status of
\* the stored task (and its updated_at) and nothing else of it, whatever
\* another client has stored since the board fetched the task.
C30_StatusChangeTouchesOnlyStatus ==
    [][\A r \in pending :
          (/\ Idle
           /\ r.kind = "drag"
           /\ last'.op = "UpdateTodo"
           /\ last'.id = <<Itoa(r.id)>>
           /\ last'.req = r.payload
           /\ last'.code = 200) =>
              todos'[r.id] = [todos[r.id] EXCEPT !.status = r.payload.status[1],
                                                !.updated_at = now]]_vars

====
